---- MODULE Spec2Model ----
(***************************************************************************)
(* State-machine model of the trash-detection API (src/main.py,            *)
(* src/model.py): the relational store with its five tables, the           *)
(* request handlers, the transactional ingest (create_detection), and the  *)
(* periodic daily-statistics refresher (stats_scheduler).                  *)
(*                                                                         *)
(* Python None / SQL NULL is modelled as NULL for strings and as the empty *)
(* set for optional integers ({} is None, {n} is the integer n).           *)
(* Timestamps are integer ticks; func.date() is integer division by        *)
(* TicksPerDay.                                                            *)
(***************************************************************************)
EXTENDS Integers, Sequences, FiniteSets, TLC

\* ---------------------------------------------------------------- bounds
\* Trash-can ids an ingest may name, and the most TrashCan rows ever created.
MaxCans == 2
\* Class ids an ingest may name.
MaxClassId == 2
\* Most predictions in one ingest payload.
MaxPreds == 2
\* Days the model lets the clock advance.
MaxDays == 1
\* Ingest requests, and other committing requests, that Spec accepts.
MaxIngests == 2
MaxApiOps == 2
\* The same for ConcSpec, where requests overlap.
MaxConcIngests == 2
MaxConcApiOps == 1
\* Ingest requests that IngestSpec accepts.
MaxSeqIngests == 3
\* Requests that ViewSpec accepts.
MaxViewIngests == 1
MaxViewApiOps == 2
MaxViewReads == 1
\* Requests that IntegritySpec accepts.
MaxIntegrityIngests == 1
MaxIntegrityApiOps == 2
\* The same for SchedSpec.
MaxSchedIngests == 1
MaxSchedApiOps == 1
\* Clock ticks in one calendar day.
TicksPerDay == 2
\* Concurrent request sessions (worker threads serving create_detection).
NumSessions == 2

\* ------------------------------------------------------ program constants
STATS_LAG_DAYS == 1

NULL == "<NULL>"
UNKNOWN == "UNKNOWN"

Sessions == 1..NumSessions
CanIds == 1..MaxCans
ClassIds == 1..MaxClassId
ClassNames == {"Plastic", "Can"}

VARIABLES
    TrashCan,          \* committed rows of table TrashCan
    WasteType,         \* committed rows of table WasteType
    Detection,         \* committed rows of table Detection
    DetectionDetail,   \* committed rows of table Detection_detail
    DailyStats,        \* committed rows of table DailyStats
    sess,              \* per request session: position in create_detection and its uncommitted writes
    resp,              \* the response of the request that finished last
    sched,             \* the stats_scheduler task: its position, the open refresh cycle
    now,               \* datetime.utcnow(), in ticks
    budget             \* what the environment may still do: requests it may send
                       \* (ingests, ops), ingests that may carry a detected_at
                       \* (stamped), and whether requests may overlap

vars == <<TrashCan, WasteType, Detection, DetectionDetail, DailyStats, sess, resp, sched, now,
          budget>>

store == <<TrashCan, WasteType, Detection, DetectionDetail, DailyStats>>

\* No request is being served.
Quiet == \A s \in Sessions : sess[s].pc = "idle"

\* A new request may be taken up now.
Accepting == budget.overlap \/ Quiet

\* ------------------------------------------------------------- helpers
Max(S) == IF S = {} THEN 0 ELSE CHOOSE m \in S : \A x \in S : x <= m

\* func.date(detected_at), datetime.date()
DateOf(t) == t \div TicksPerDay

\* f"TrashCan {trashcan_id}"
PlaceholderName(id) == "TrashCan " \o ToString(id)

\* ------------------------------------------------------------- rows
\* TrashCan(...) with the column defaults of model.py applied at INSERT.
TrashCanRow(id, name, capacity, city, located, online) ==
    [trashcan_id |-> id, trashcan_name |-> name, trashcan_capacity |-> capacity,
     trashcan_city |-> city, located |-> located, is_online |-> online,
     is_deleted |-> FALSE]

WasteTypeRow(id, name) == [waste_type_id |-> id, type_name |-> name]

DetectionRow(id, can, at) == [detection_id |-> id, trashcan_id |-> can, detected_at |-> at]

DetectionDetailRow(id, det, wt) == [detail_id |-> id, detection_id |-> det, waste_type_id |-> wt]

DailyStatsRow(id, d, city, wt, n) ==
    [stats_id |-> id, stats_date |-> d, trashcan_city |-> city,
     waste_type_id |-> wt, detection_count |-> n]

\* ------------------------------------------------------------- sessions
\* A request session outside create_detection: no transaction, nothing written.
IdleSession ==
    [pc |-> "idle", named |-> {}, trashcan_id |-> 0, n |-> 0,
     TrashCan |-> {}, revived |-> {}, WasteType |-> {}, Detection |-> {},
     DetectionDetail |-> {}]

NoResponse == [op |-> "none"]

\* Rows written (flushed) by sessions other than s and not committed yet.
OtherCans(s) == UNION {sess[t].TrashCan : t \in Sessions \ {s}}
OtherWasteTypes(s) == UNION {sess[t].WasteType : t \in Sessions \ {s}}

\* What a query of session s sees: the committed rows and its own flushed writes.
VisibleCans(s) ==
    {IF c.trashcan_id \in sess[s].revived THEN [c EXCEPT !.is_deleted = FALSE] ELSE c :
        c \in TrashCan} \cup sess[s].TrashCan
VisibleWasteTypes(s) == WasteType \cup sess[s].WasteType

\* Autoincrement keys: one more than every key handed out and still held.
NextCanId == 1 + Max({c.trashcan_id : c \in TrashCan \cup UNION {sess[t].TrashCan : t \in Sessions}})
NextDetectionId ==
    1 + Max({d.detection_id : d \in Detection \cup UNION {sess[t].Detection : t \in Sessions}})
NextDetailId ==
    1 + Max({d.detail_id : d \in DetectionDetail \cup UNION {sess[t].DetectionDetail : t \in Sessions}})
NextWasteTypeId ==
    1 + Max({w.waste_type_id : w \in WasteType \cup UNION {sess[t].WasteType : t \in Sessions}})

\* ------------------------------------------------- get_or_create_trashcan
\* get_or_create_trashcan without the revival of a soft-deleted row.
get_or_create_trashcan_no_revive(s, trashcan_id) ==
    IF trashcan_id # {}
    THEN LET id == CHOOSE x \in trashcan_id : TRUE
             found == {c \in VisibleCans(s) : c.trashcan_id = id}
         IN  IF found # {}
             THEN [status |-> "ok", trashcan_id |-> id, created |-> FALSE,
                   TrashCan |-> sess[s].TrashCan, revived |-> sess[s].revived]
             ELSE IF \E c \in OtherCans(s) : c.trashcan_id = id
                  THEN [status |-> "wait"]
                  ELSE [status |-> "ok", trashcan_id |-> id, created |-> TRUE,
                        TrashCan |-> sess[s].TrashCan \cup
                            {TrashCanRow(id, PlaceholderName(id), {}, NULL, FALSE, FALSE)},
                        revived |-> sess[s].revived]
    ELSE LET found == {c \in VisibleCans(s) : c.trashcan_name = UNKNOWN}
         IN  IF Cardinality(found) > 1
             THEN [status |-> "raise"]
             ELSE IF found # {}
                  THEN [status |-> "ok", trashcan_id |-> (CHOOSE c \in found : TRUE).trashcan_id,
                        created |-> FALSE,
                        TrashCan |-> sess[s].TrashCan, revived |-> sess[s].revived]
                  ELSE [status |-> "ok", trashcan_id |-> NextCanId, created |-> TRUE,
                        TrashCan |-> sess[s].TrashCan \cup
                            {TrashCanRow(NextCanId, UNKNOWN, {}, UNKNOWN, FALSE, FALSE)},
                        revived |-> sess[s].revived]

\* get_or_create_trashcan without its lookups: every call inserts a row.
get_or_create_trashcan_always_creates(s, trashcan_id) ==
    IF trashcan_id # {}
    THEN LET id == CHOOSE x \in trashcan_id : TRUE
         IN  [status |-> "ok", trashcan_id |-> id, created |-> TRUE,
              TrashCan |-> sess[s].TrashCan \cup
                  {TrashCanRow(id, PlaceholderName(id), {}, NULL, FALSE, FALSE)},
              revived |-> sess[s].revived]
    ELSE [status |-> "ok", trashcan_id |-> NextCanId, created |-> TRUE,
          TrashCan |-> sess[s].TrashCan \cup
              {TrashCanRow(NextCanId, UNKNOWN, {}, UNKNOWN, FALSE, FALSE)},
          revived |-> sess[s].revived]

\* The result of get_or_create_trashcan in session s: status "ok" with the
\* row's id and the session's writes, "raise" (one_or_none() found several
\* rows), or "wait" (the write waits for another session's uncommitted write
\* to the same row or primary key).
get_or_create_trashcan(s, trashcan_id) ==
    IF trashcan_id # {}
    THEN LET id == CHOOSE x \in trashcan_id : TRUE
             found == {c \in VisibleCans(s) : c.trashcan_id = id}
         IN  IF found # {}
             THEN LET trashcan == CHOOSE c \in found : TRUE
                  IN  IF trashcan.is_deleted
                      THEN IF \E t \in Sessions \ {s} : id \in sess[t].revived
                           THEN [status |-> "wait"]
                           ELSE [status |-> "ok", trashcan_id |-> id, created |-> FALSE,
                                 TrashCan |-> sess[s].TrashCan,
                                 revived |-> sess[s].revived \cup {id}]
                      ELSE [status |-> "ok", trashcan_id |-> id, created |-> FALSE,
                            TrashCan |-> sess[s].TrashCan, revived |-> sess[s].revived]
             ELSE IF \E c \in OtherCans(s) : c.trashcan_id = id
                  THEN [status |-> "wait"]
                  ELSE [status |-> "ok", trashcan_id |-> id, created |-> TRUE,
                        TrashCan |-> sess[s].TrashCan \cup
                            {TrashCanRow(id, PlaceholderName(id), {}, NULL, FALSE, FALSE)},
                        revived |-> sess[s].revived]
    ELSE LET found == {c \in VisibleCans(s) : c.trashcan_name = UNKNOWN}
         IN  IF Cardinality(found) > 1
             THEN [status |-> "raise"]
             ELSE IF found # {}
                  THEN [status |-> "ok", trashcan_id |-> (CHOOSE c \in found : TRUE).trashcan_id,
                        created |-> FALSE,
                        TrashCan |-> sess[s].TrashCan, revived |-> sess[s].revived]
                  ELSE [status |-> "ok", trashcan_id |-> NextCanId, created |-> TRUE,
                        TrashCan |-> sess[s].TrashCan \cup
                            {TrashCanRow(NextCanId, UNKNOWN, {}, UNKNOWN, FALSE, FALSE)},
                        revived |-> sess[s].revived]

\* ----------------------------------------------- get_or_create_waste_type
\* "ok" with the row's id and the session's WasteType writes, "raise" (the
\* INSERT breaks the unique type_name), or "wait" (another session's
\* uncommitted row holds the same key or name).
get_or_create_waste_type(s, class_id, class_name) ==
    LET found == {w \in VisibleWasteTypes(s) : w.waste_type_id = class_id}
    IN  IF found # {}
        THEN [status |-> "ok", waste_type_id |-> class_id, WasteType |-> sess[s].WasteType]
        ELSE IF \E w \in VisibleWasteTypes(s) : w.type_name = class_name
             THEN [status |-> "raise"]
             ELSE IF \E w \in OtherWasteTypes(s) :
                        w.waste_type_id = class_id \/ w.type_name = class_name
                  THEN [status |-> "wait"]
                  ELSE [status |-> "ok", waste_type_id |-> class_id,
                        WasteType |-> sess[s].WasteType \cup {WasteTypeRow(class_id, class_name)}]

\* ------------------------------------------------------- create_detection
\* payload.trashcan_id: absent, or one of the ids.
TrashcanIdInputs == {{}} \cup {{id} : id \in CanIds}

\* payload.detected_at: absent, or the second half of the day before.
DetectedAtInputs == {{}} \cup (IF budget.stamped > 0 THEN {{now - 1}} ELSE {})

\* One element of payload.predictions: its class_id and class_name. Class 1 is
\* always reported as "Plastic"; the last class id comes under either name.
PredictionInputs ==
    {p \in [class_id : ClassIds, class_name : ClassNames] :
        p.class_id < MaxClassId => p.class_name = "Plastic"}

\* The failed request's response, with what the properties need to know of
\* it: the exception and how many rows its session had written.
Failed500(s, exception) ==
    [op |-> "create_detection", status |-> "failed", exception |-> exception,
     written |-> Cardinality(sess[s].TrashCan) + Cardinality(sess[s].revived)
                 + Cardinality(sess[s].WasteType) + Cardinality(sess[s].Detection)
                 + Cardinality(sess[s].DetectionDetail)]

\* The request arrives (the lowest free session serves it): detected_at is
\* defaulted, the trash can resolved, and the Detection row added and flushed.
IngestStart(s) ==
    /\ sess[s].pc = "idle"
    /\ \A t \in 1..(s - 1) : sess[t].pc # "idle"
    /\ Accepting
    /\ budget.ingests > 0
    /\ \E trashcan_id \in TrashcanIdInputs, at \in DetectedAtInputs :
         LET r == get_or_create_trashcan(s, trashcan_id)
             detected_at == IF at = {} THEN now ELSE CHOOSE t \in at : TRUE
         IN  /\ r.status # "wait"
             /\ (r.status = "ok" /\ r.created) => r.trashcan_id <= MaxCans
             /\ IF r.status = "raise"
                THEN /\ sess' = sess
                     /\ resp' = Failed500(s, "MultipleResultsFound")
                ELSE /\ sess' = [sess EXCEPT ![s] =
                            [@ EXCEPT !.pc = "details", !.named = trashcan_id,
                                      !.trashcan_id = r.trashcan_id,
                                      !.TrashCan = r.TrashCan, !.revived = r.revived,
                                      !.Detection = {DetectionRow(NextDetectionId,
                                                        r.trashcan_id, detected_at)}]]
                     /\ resp' = resp
             /\ budget' = [budget EXCEPT !.ingests = @ - 1,
                                         !.stamped = IF at = {} THEN @ ELSE @ - 1]
    /\ UNCHANGED <<store, sched, now>>

\* The loop's turn with get_or_create_waste_type committing instead of
\* flushing: what the session has written so far becomes committed rows.
IngestDetailCommits(s) ==
    /\ sess[s].pc = "details"
    /\ sess[s].n < MaxPreds
    /\ \E pred \in PredictionInputs :
         LET r == get_or_create_waste_type(s, pred.class_id, pred.class_name)
             detection == CHOOSE d \in sess[s].Detection : TRUE
         IN  /\ r.status # "wait"
             /\ IF r.status = "raise"
                THEN /\ sess' = [sess EXCEPT ![s] = IdleSession]
                     /\ resp' = Failed500(s, "IntegrityError")
                     /\ UNCHANGED <<TrashCan, WasteType, Detection, DetectionDetail>>
                ELSE /\ TrashCan' = {IF c.trashcan_id \in sess[s].revived
                                     THEN [c EXCEPT !.is_deleted = FALSE] ELSE c :
                                        c \in TrashCan} \cup sess[s].TrashCan
                     /\ WasteType' = WasteType \cup r.WasteType
                     /\ Detection' = Detection \cup sess[s].Detection
                     /\ DetectionDetail' = DetectionDetail \cup sess[s].DetectionDetail
                     /\ sess' = [sess EXCEPT ![s] =
                            [@ EXCEPT !.n = @ + 1, !.TrashCan = {}, !.revived = {},
                                      !.WasteType = {}, !.Detection = {},
                                      !.DetectionDetail =
                                          {DetectionDetailRow(NextDetailId,
                                              detection.detection_id, r.waste_type_id)}]]
                     /\ resp' = resp
    /\ UNCHANGED <<DailyStats, sched, now, budget>>

\* One turn of the loop over payload.predictions.
IngestDetail(s) ==
    /\ sess[s].pc = "details"
    /\ sess[s].n < MaxPreds
    /\ \E pred \in PredictionInputs :
         LET r == get_or_create_waste_type(s, pred.class_id, pred.class_name)
             detection == CHOOSE d \in sess[s].Detection : TRUE
         IN  /\ r.status # "wait"
             /\ IF r.status = "raise"
                THEN /\ sess' = [sess EXCEPT ![s] = IdleSession]
                     /\ resp' = Failed500(s, "IntegrityError")
                ELSE /\ sess' = [sess EXCEPT ![s] =
                            [@ EXCEPT !.n = @ + 1, !.WasteType = r.WasteType,
                                      !.DetectionDetail = @ \cup
                                          {DetectionDetailRow(NextDetailId,
                                              detection.detection_id, r.waste_type_id)}]]
                     /\ resp' = resp
    /\ UNCHANGED <<store, sched, now, budget>>

\* The loop is over; db.commit(): the session's writes become committed rows.
IngestCommit(s) ==
    /\ sess[s].pc = "details"
    /\ TrashCan' = {IF c.trashcan_id \in sess[s].revived
                    THEN [c EXCEPT !.is_deleted = FALSE] ELSE c : c \in TrashCan}
                   \cup sess[s].TrashCan
    /\ WasteType' = WasteType \cup sess[s].WasteType
    /\ Detection' = Detection \cup sess[s].Detection
    /\ DetectionDetail' = DetectionDetail \cup sess[s].DetectionDetail
    /\ sess' = [sess EXCEPT ![s] = IdleSession]
    /\ resp' = [op |-> "create_detection", status |-> "committed",
                detection_id |-> (CHOOSE d \in sess[s].Detection : TRUE).detection_id,
                trashcan_id |-> sess[s].trashcan_id, named |-> sess[s].named,
                revived |-> sess[s].revived]
    /\ UNCHANGED <<DailyStats, sched, now, budget>>

\* Any store error before the commit: the exception leaves the handler and
\* get_db closes the session, which rolls its transaction back.
IngestFail(s) ==
    /\ sess[s].pc # "idle"
    /\ sess' = [sess EXCEPT ![s] = IdleSession]
    /\ resp' = Failed500(s, "OperationalError")
    /\ UNCHANGED <<store, sched, now, budget>>

\* ------------------------------------------------------------- handlers
\* Each handler below runs in one short transaction of its own and is one
\* action; it waits while a row it writes is held by an open ingest.
ApiCall ==
    /\ Accepting
    /\ budget.ops > 0
    /\ budget' = [budget EXCEPT !.ops = @ - 1]
    /\ UNCHANGED <<sess, sched, now>>

\* TrashCanIn payloads.
TrashCanInputs ==
    {[trashcan_name |-> UNKNOWN, trashcan_capacity |-> {}, trashcan_city |-> NULL,
      located |-> FALSE, is_online |-> FALSE],
     [trashcan_name |-> "Bin", trashcan_capacity |-> {1}, trashcan_city |-> "Seoul",
      located |-> TRUE, is_online |-> TRUE]}

create_trashcan(payload) ==
    /\ NextCanId <= MaxCans
    /\ TrashCan' = TrashCan \cup
            {TrashCanRow(NextCanId, payload.trashcan_name, payload.trashcan_capacity,
                         payload.trashcan_city, payload.located, payload.is_online)}
    /\ resp' = [op |-> "create_trashcan", trashcan_id |-> NextCanId]
    /\ UNCHANGED <<WasteType, Detection, DetectionDetail, DailyStats>>
    /\ ApiCall

\* TrashCanUpdate payloads: every field is optional.
TrashCanUpdates ==
    {[trashcan_name |-> {UNKNOWN}, trashcan_city |-> {}, trashcan_capacity |-> {}, is_online |-> {}],
     [trashcan_name |-> {"Bin"}, trashcan_city |-> {"Busan"}, trashcan_capacity |-> {}, is_online |-> {}],
     [trashcan_name |-> {}, trashcan_city |-> {}, trashcan_capacity |-> {0}, is_online |-> {TRUE}]}

Patched(old, new) == IF new = {} THEN old ELSE CHOOSE v \in new : TRUE

update_trashcan(trashcan_id, payload) ==
    /\ LET found == {c \in TrashCan : c.trashcan_id = trashcan_id /\ ~c.is_deleted}
       IN  IF found = {}
           THEN /\ TrashCan' = TrashCan
                /\ resp' = [op |-> "update_trashcan", updated |-> FALSE, reason |-> "not_found"]
           ELSE LET trashcan == CHOOSE c \in found : TRUE
                    after == [trashcan EXCEPT
                        !.trashcan_name = Patched(@, payload.trashcan_name),
                        !.trashcan_city = Patched(@, payload.trashcan_city),
                        !.trashcan_capacity =
                            IF payload.trashcan_capacity = {} THEN @ ELSE payload.trashcan_capacity,
                        !.is_online = Patched(@, payload.is_online)]
                IN  /\ TrashCan' = (TrashCan \ {trashcan}) \cup {after}
                    /\ resp' = [op |-> "update_trashcan", updated |-> TRUE,
                                reason |-> "none"]
    /\ UNCHANGED <<WasteType, Detection, DetectionDetail, DailyStats>>
    /\ ApiCall

\* delete_trashcan without its early return for a row already deleted.
delete_trashcan_no_early_return(trashcan_id) ==
    /\ LET found == {c \in TrashCan : c.trashcan_id = trashcan_id}
       IN  IF found = {}
           THEN /\ TrashCan' = TrashCan
                /\ resp' = [op |-> "delete_trashcan", deleted |-> FALSE, reason |-> "not_found"]
           ELSE LET trashcan == CHOOSE c \in found : TRUE
                IN  /\ TrashCan' = (TrashCan \ {trashcan}) \cup
                           {[trashcan EXCEPT !.is_deleted = TRUE, !.is_online = FALSE]}
                    /\ resp' = [op |-> "delete_trashcan", deleted |-> TRUE,
                                reason |-> "soft_deleted"]
    /\ UNCHANGED <<WasteType, Detection, DetectionDetail, DailyStats>>
    /\ ApiCall

delete_trashcan(trashcan_id) ==
    /\ LET found == {c \in TrashCan : c.trashcan_id = trashcan_id}
       IN  IF found = {}
           THEN /\ TrashCan' = TrashCan
                /\ resp' = [op |-> "delete_trashcan", deleted |-> FALSE, reason |-> "not_found"]
           ELSE LET trashcan == CHOOSE c \in found : TRUE
                IN  IF trashcan.is_deleted
                    THEN /\ TrashCan' = TrashCan
                         /\ resp' = [op |-> "delete_trashcan", deleted |-> TRUE,
                                     reason |-> "already_deleted"]
                    ELSE /\ TrashCan' = (TrashCan \ {trashcan}) \cup
                                {[trashcan EXCEPT !.is_deleted = TRUE, !.is_online = FALSE]}
                         /\ resp' = [op |-> "delete_trashcan", deleted |-> TRUE,
                                     reason |-> "soft_deleted"]
    /\ UNCHANGED <<WasteType, Detection, DetectionDetail, DailyStats>>
    /\ ApiCall

restore_trashcan(trashcan_id) ==
    /\ LET found == {c \in TrashCan : c.trashcan_id = trashcan_id}
       IN  IF found = {}
           THEN /\ TrashCan' = TrashCan
                /\ resp' = [op |-> "restore_trashcan", restored |-> FALSE, reason |-> "not_found"]
           ELSE LET trashcan == CHOOSE c \in found : TRUE
                IN  IF ~trashcan.is_deleted
                    THEN /\ TrashCan' = TrashCan
                         /\ resp' = [op |-> "restore_trashcan", restored |-> TRUE,
                                     reason |-> "already_active"]
                    ELSE /\ \A s \in Sessions : trashcan_id \notin sess[s].revived
                         /\ TrashCan' = (TrashCan \ {trashcan}) \cup
                                {[trashcan EXCEPT !.is_deleted = FALSE]}
                         /\ resp' = [op |-> "restore_trashcan", restored |-> TRUE,
                                     reason |-> "restored"]
    /\ UNCHANGED <<WasteType, Detection, DetectionDetail, DailyStats>>
    /\ ApiCall

create_waste_type(type_name) ==
    /\ LET existing == {w \in WasteType : w.type_name = type_name}
       IN  IF existing # {}
           THEN /\ WasteType' = WasteType
                /\ resp' = [op |-> "create_waste_type", row |-> CHOOSE w \in existing : TRUE]
           ELSE /\ \A s \in Sessions : \A w \in sess[s].WasteType : w.type_name # type_name
                /\ NextWasteTypeId <= MaxClassId + 1
                /\ WasteType' = WasteType \cup {WasteTypeRow(NextWasteTypeId, type_name)}
                /\ resp' = [op |-> "create_waste_type",
                            row |-> WasteTypeRow(NextWasteTypeId, type_name)]
    /\ UNCHANGED <<TrashCan, Detection, DetectionDetail, DailyStats>>
    /\ ApiCall

\* waste_type.detection_details and waste_type.daily_stats: the rows that
\* reference the waste type.
detection_details(waste_type_id) == {d \in DetectionDetail : d.waste_type_id = waste_type_id}
daily_stats(waste_type_id) == {r \in DailyStats : r.waste_type_id = waste_type_id}

\* delete_waste_type without its look at waste_type.detection_details.
delete_waste_type_unguarded(waste_type_id) ==
    /\ LET found == {w \in WasteType : w.waste_type_id = waste_type_id}
       IN  IF found = {}
           THEN /\ WasteType' = WasteType
                /\ resp' = [op |-> "delete_waste_type", deleted |-> FALSE, reason |-> "not_found"]
           ELSE /\ WasteType' = WasteType \ found
                /\ resp' = [op |-> "delete_waste_type", deleted |-> TRUE, reason |-> "none"]
    /\ UNCHANGED <<TrashCan, Detection, DetectionDetail, DailyStats>>
    /\ ApiCall

\* db.delete() of a row that DailyStats rows still reference sets their
\* non-nullable waste_type_id to NULL: the flush raises, nothing is deleted.
\* The DELETE waits while an open ingest holds a row referencing the type.
delete_waste_type(waste_type_id) ==
    /\ LET found == {w \in WasteType : w.waste_type_id = waste_type_id}
       IN  IF found = {}
           THEN /\ WasteType' = WasteType
                /\ resp' = [op |-> "delete_waste_type", deleted |-> FALSE, reason |-> "not_found"]
           ELSE IF detection_details(waste_type_id) # {}
                THEN /\ WasteType' = WasteType
                     /\ resp' = [op |-> "delete_waste_type", deleted |-> FALSE,
                                 reason |-> "in_use"]
                ELSE IF daily_stats(waste_type_id) # {}
                     THEN /\ WasteType' = WasteType
                          /\ resp' = [op |-> "delete_waste_type", deleted |-> FALSE,
                                      reason |-> "raised"]
                     ELSE /\ \A s \in Sessions : \A d \in sess[s].DetectionDetail :
                                d.waste_type_id # waste_type_id
                          /\ WasteType' = WasteType \ found
                          /\ resp' = [op |-> "delete_waste_type", deleted |-> TRUE,
                                      reason |-> "none"]
    /\ UNCHANGED <<TrashCan, Detection, DetectionDetail, DailyStats>>
    /\ ApiCall

\* The loop of seed_waste_types over the names from position i on: the rows
\* held so far, and the created and skipped counters.
RECURSIVE SeedLoop(_, _, _, _, _)
SeedLoop(types, i, rows, created, skipped) ==
    IF i > Len(types)
    THEN [rows |-> rows, created |-> created, skipped |-> skipped]
    ELSE IF \E w \in rows : w.type_name = types[i]
         THEN SeedLoop(types, i + 1, rows, created, skipped + 1)
         ELSE SeedLoop(types, i + 1,
                       rows \cup {WasteTypeRow(1 + Max({w.waste_type_id : w \in rows} \cup
                                                       {NextWasteTypeId - 1}), types[i])},
                       created + 1, skipped)

SeedInputs == {<<"Plastic", "Can">>}

seed_waste_types(types) ==
    /\ \A s \in Sessions : sess[s].WasteType = {}
    /\ LET r == SeedLoop(types, 1, WasteType, 0, 0)
       IN  /\ \A w \in r.rows : w.waste_type_id <= MaxClassId + 1
           /\ WasteType' = r.rows
           /\ resp' = [op |-> "seed_waste_types", created |-> r.created, skipped |-> r.skipped]
    /\ UNCHANGED <<TrashCan, Detection, DetectionDetail, DailyStats>>
    /\ ApiCall

\* -------------------------------------------------------- stats_scheduler
NoDate == 0 - 1

\* The task as on_startup creates it. pc is "created", "upserting" (inside
\* refresh_daily_stats, after its query), "sleeping" or "cancelled". rows are
\* the query's groups still to upsert and stats the DailyStats rows as the
\* cycle's session holds them. The other fields record the cycles for the
\* properties: queried (all groups of the open cycle's query), done (upserts
\* of the latest cycle), last (how the latest finished cycle ended),
\* prev_date and prev_rows (target date and groups of the latest committed
\* cycle), repeat (the latest committed cycle had the date and the groups of
\* the committed cycle before it).
NewTask ==
    [pc |-> "created", target_date |-> NoDate, rows |-> {}, stats |-> {},
     queried |-> {}, done |-> 0, last |-> "none",
     prev_date |-> NoDate, prev_rows |-> {}, repeat |-> FALSE]

\* The joined rows TrashCan x Detection x Detection_detail of one date.
JoinedRows(target_date) ==
    {<<c, d, o>> \in TrashCan \X Detection \X DetectionDetail :
        /\ d.trashcan_id = c.trashcan_id
        /\ o.detection_id = d.detection_id
        /\ DateOf(d.detected_at) = target_date}

\* The query of refresh_daily_stats: (trashcan_city, waste_type_id, count)
\* per group.
GroupedCounts(target_date) ==
    LET J == JoinedRows(target_date)
    IN  {<<j[1].trashcan_city, j[3].waste_type_id,
           Cardinality({k \in J : /\ k[1].trashcan_city = j[1].trashcan_city
                                  /\ k[3].waste_type_id = j[3].waste_type_id})>> : j \in J}

NextStatsId(rows) == 1 + Max({r.stats_id : r \in rows})

\* upsert_daily_stats without its lookup: every call inserts a row.
upsert_always_inserts(rows, stats_date, trashcan_city, waste_type_id, detection_count) ==
    [status |-> "ok",
     rows |-> rows \cup {DailyStatsRow(NextStatsId(rows), stats_date, trashcan_city,
                                       waste_type_id, detection_count)}]

\* upsert_daily_stats with the city compared by = where it is NULL: no row
\* matches a key without a city.
upsert_null_never_matches(rows, stats_date, trashcan_city, waste_type_id, detection_count) ==
    LET found == {r \in rows : /\ r.stats_date = stats_date
                               /\ trashcan_city # NULL
                               /\ r.trashcan_city = trashcan_city
                               /\ r.waste_type_id = waste_type_id}
    IN  IF Cardinality(found) > 1
        THEN [status |-> "raise"]
        ELSE IF found # {}
             THEN [status |-> "ok",
                   rows |-> (rows \ found) \cup
                            {[r EXCEPT !.detection_count = detection_count] : r \in found}]
             ELSE [status |-> "ok",
                   rows |-> rows \cup {DailyStatsRow(NextStatsId(rows), stats_date,
                                                     trashcan_city, waste_type_id,
                                                     detection_count)}]

\* upsert_daily_stats on the rows the session holds: "ok" with the rows
\* after it, or "raise" (one_or_none() found several rows).
upsert_daily_stats(rows, stats_date, trashcan_city, waste_type_id, detection_count) ==
    LET found == {r \in rows : /\ r.stats_date = stats_date
                               /\ r.trashcan_city = trashcan_city
                               /\ r.waste_type_id = waste_type_id}
    IN  IF Cardinality(found) > 1
        THEN [status |-> "raise"]
        ELSE IF found # {}
             THEN [status |-> "ok",
                   rows |-> (rows \ found) \cup
                            {[r EXCEPT !.detection_count = detection_count] : r \in found}]
             ELSE [status |-> "ok",
                   rows |-> rows \cup {DailyStatsRow(NextStatsId(rows), stats_date,
                                                     trashcan_city, waste_type_id,
                                                     detection_count)}]

\* stats_scheduler without its try/except: the exception ends the task.
AbandonedEndsTask ==
    [sched EXCEPT !.pc = "cancelled", !.rows = {}, !.stats = {}, !.queried = {},
                  !.last = "failed"]

\* The cycle ends without a commit: the exception leaves refresh_daily_stats,
\* the session closes (rolling back), stats_scheduler swallows it and sleeps.
Abandoned ==
    [sched EXCEPT !.pc = "sleeping", !.rows = {}, !.stats = {}, !.queried = {},
                  !.last = "failed"]

\* The sleep ends (or the task runs for the first time): target_date is
\* computed and the query of refresh_daily_stats runs.
RefreshQuery ==
    /\ sched.pc \in {"created", "sleeping"}
    /\ LET target_date == DateOf(now - STATS_LAG_DAYS * TicksPerDay)
           rows == GroupedCounts(target_date)
       IN  sched' = [sched EXCEPT !.pc = "upserting", !.target_date = target_date,
                                  !.rows = rows, !.queried = rows,
                                  !.stats = DailyStats, !.done = 0]
    /\ UNCHANGED <<store, sess, resp, now, budget>>

\* The loop's turn with a commit after each upsert.
RefreshUpsertCommits ==
    /\ sched.pc = "upserting"
    /\ \E row \in sched.rows :
         LET r == upsert_daily_stats(sched.stats, sched.target_date, row[1], row[2], row[3])
         IN  IF r.status = "raise"
             THEN /\ sched' = Abandoned
                  /\ DailyStats' = DailyStats
             ELSE /\ sched' = [sched EXCEPT !.rows = @ \ {row}, !.stats = r.rows,
                                            !.done = @ + 1]
                  /\ DailyStats' = r.rows
    /\ UNCHANGED <<TrashCan, WasteType, Detection, DetectionDetail, sess, resp, now, budget>>

\* One turn of the loop over the query's rows (in the order the store
\* returned them, which is any order).
RefreshUpsert ==
    /\ sched.pc = "upserting"
    /\ \E row \in sched.rows :
         LET r == upsert_daily_stats(sched.stats, sched.target_date, row[1], row[2], row[3])
         IN  IF r.status = "raise"
             THEN sched' = Abandoned
             ELSE sched' = [sched EXCEPT !.rows = @ \ {row}, !.stats = r.rows,
                                         !.done = @ + 1]
    /\ UNCHANGED <<store, sess, resp, now, budget>>

\* db.commit() after the loop.
RefreshCommit ==
    /\ sched.pc = "upserting"
    /\ sched.rows = {}
    /\ DailyStats' = sched.stats
    /\ sched' = [sched EXCEPT !.pc = "sleeping", !.stats = {}, !.queried = {},
                              !.last = "committed",
                              !.repeat = /\ sched.prev_date = sched.target_date
                                         /\ sched.prev_rows = sched.queried,
                              !.prev_date = sched.target_date,
                              !.prev_rows = sched.queried]
    /\ UNCHANGED <<TrashCan, WasteType, Detection, DetectionDetail, sess, resp, now, budget>>

\* Any Exception raised inside refresh_daily_stats before its commit.
RefreshFail ==
    /\ sched.pc = "upserting"
    /\ sched' = Abandoned
    /\ UNCHANGED <<store, sess, resp, now, budget>>

\* A cancellation that lands wherever the task is, inside a cycle too.
CancelAnywhere ==
    /\ sched.pc \in {"created", "sleeping", "upserting"}
    /\ sched' = [sched EXCEPT !.pc = "cancelled"]
    /\ UNCHANGED <<store, sess, resp, now, budget>>

\* on_shutdown cancels the task; the cancellation lands at the await.
Cancel ==
    /\ sched.pc \in {"created", "sleeping"}
    /\ sched' = [sched EXCEPT !.pc = "cancelled"]
    /\ UNCHANGED <<store, sess, resp, now, budget>>

\* ------------------------------------------------------------- clock
\* A day passes.
Tick ==
    /\ now < TicksPerDay * (STATS_LAG_DAYS + MaxDays)
    /\ now' = now + TicksPerDay
    /\ UNCHANGED <<store, sess, resp, sched, budget>>

\* ------------------------------------------------------------- read endpoints
Min(a, b) == IF a < b THEN a ELSE b

\* The characters of the strings that rows and filters hold.
Chars(str) ==
    IF \E id \in CanIds : str = PlaceholderName(id)
    THEN <<"T", "r", "a", "s", "h", "C", "a", "n", " ",
           ToString(CHOOSE id \in CanIds : str = PlaceholderName(id))>>
    ELSE CASE str = "UNKNOWN" -> <<"U", "N", "K", "N", "O", "W", "N">>
           [] str = "Bin"     -> <<"B", "i", "n">>
           [] str = "Seoul"   -> <<"S", "e", "o", "u", "l">>
           [] str = "Busan"   -> <<"B", "u", "s", "a", "n">>
           [] str = "SEO"     -> <<"S", "E", "O">>
           [] str = "can"     -> <<"c", "a", "n">>

\* str.lower()
Lower(chars) ==
    [i \in DOMAIN chars |->
        CASE chars[i] = "B" -> "b" [] chars[i] = "C" -> "c" [] chars[i] = "E" -> "e"
          [] chars[i] = "K" -> "k" [] chars[i] = "N" -> "n" [] chars[i] = "O" -> "o"
          [] chars[i] = "S" -> "s" [] chars[i] = "T" -> "t" [] chars[i] = "U" -> "u"
          [] chars[i] = "W" -> "w" [] OTHER -> chars[i]]

\* needle in hay
Contains(needle, hay) ==
    \E i \in 0..(Len(hay) - Len(needle)) :
        \A k \in 1..Len(needle) : hay[i + k] = needle[k]

\* The city and name filters of list_trashcans and trashcan_locations: a row
\* passes when no filter is given, or its value is not NULL and contains the
\* filter, both in lower case.
Matches(filter, value) ==
    \A f \in filter : value # NULL /\ Contains(Lower(Chars(f)), Lower(Chars(value)))

\* The rows of a query without ORDER BY, in any order the store may return.
Orderings(rows) ==
    {order \in [1..Cardinality(rows) -> rows] :
        \A i, j \in 1..Cardinality(rows) : i # j => order[i] # order[j]}

\* Tuples of integers compared as Python compares tuples.
RECURSIVE TupleLess(_, _)
TupleLess(a, b) ==
    IF a = <<>> \/ b = <<>> THEN Len(a) < Len(b)
    ELSE IF Head(a) # Head(b) THEN Head(a) < Head(b)
    ELSE TupleLess(Tail(a), Tail(b))

\* list.sort(key=...): a stable sort; keys[i] is the key of items[i].
Sorted(items, keys) ==
    LET before(i) == {j \in DOMAIN items :
                        TupleLess(keys[j], keys[i]) \/ (keys[j] = keys[i] /\ j < i)}
    IN  [k \in DOMAIN items |->
            items[CHOOSE i \in DOMAIN items : Cardinality(before(i)) = k - 1]]

\* items[offset : offset + limit]
Slice(items, offset, limit) ==
    [i \in 1..(Min(Len(items), offset + limit) - Min(Len(items), offset)) |->
        items[offset + i]]

\* Every bool taken for False.
AsIntFalse(b) == 0

\* bool as an integer, as Python orders it
AsInt(b) == IF b THEN 1 ELSE 0

\* x or 0, for an optional integer
OrZero(x) == IF x = {} THEN 0 ELSE CHOOSE v \in x : TRUE

\* Detection JOIN Detection_detail of one trash can, from a cutoff on.
DetailsOf(trashcan_id, cutoff) ==
    {dd \in DetectionDetail :
        \E d \in Detection : /\ d.detection_id = dd.detection_id
                             /\ d.trashcan_id = trashcan_id
                             /\ d.detected_at >= cutoff}

\* {trashcan_id: count for ...} of the grouped count; cutoff 0 for all time.
CountMap(cutoff) ==
    [id \in {d.trashcan_id : d \in {d \in Detection : DetailsOf(d.trashcan_id, cutoff) # {}}} |->
        Cardinality(DetailsOf(id, cutoff))]

\* dict.get(key, default)
GetOr(map, key, default) == IF key \in DOMAIN map THEN map[key] ELSE default

\* dict.get(key, 0) in the place of dict.get(key)
GetDefaultZero(map, key) == IF key \in DOMAIN map THEN {map[key]} ELSE {0}

\* dict.get(key): the value or None
Get(map, key) == IF key \in DOMAIN map THEN {map[key]} ELSE {}

\* {type_name: count} over the Detection_detail rows given
ByType(details) ==
    [name \in {w.type_name : w \in {w \in WasteType :
                  \E dd \in details : dd.waste_type_id = w.waste_type_id}} |->
        Cardinality({dd \in details :
            \E w \in WasteType : w.waste_type_id = dd.waste_type_id /\ w.type_name = name})]

status_order(status) ==
    CASE status = "full" -> 0 [] status = "medium" -> 1 [] status = "low" -> 2
      [] status = "unknown" -> 3 [] OTHER -> 9

\* compute_status with > for >=.
list_trashcans_compute_status_strict(current, full_threshold, medium_threshold) ==
    IF current = {} THEN "unknown"
    ELSE IF OrZero(current) > full_threshold THEN "full"
    ELSE IF OrZero(current) > medium_threshold THEN "medium"
    ELSE "low"

\* compute_status of list_trashcans; current is the optional count.
list_trashcans_compute_status(current, full_threshold, medium_threshold) ==
    IF current = {} THEN "unknown"
    ELSE IF OrZero(current) >= full_threshold THEN "full"
    ELSE IF OrZero(current) >= medium_threshold THEN "medium"
    ELSE "low"

\* compute_status of trashcan_summary
trashcan_summary_compute_status(current, full_threshold, medium_threshold) ==
    IF current = {} THEN "unknown"
    ELSE IF OrZero(current) >= full_threshold THEN "full"
    ELSE IF OrZero(current) >= medium_threshold THEN "medium"
    ELSE "low"

\* compute_status of collection_needed
collection_needed_compute_status(current, full_threshold, medium_threshold) ==
    IF current = {} THEN "unknown"
    ELSE IF OrZero(current) >= full_threshold THEN "full"
    ELSE IF OrZero(current) >= medium_threshold THEN "medium"
    ELSE "low"

\* Query(50, ge=1) and Query(20, ge=1): the default thresholds.
DefaultFullThreshold == 50
DefaultMediumThreshold == 20

Live == {c \in TrashCan : ~c.is_deleted}

\* GET /trashcans with every parameter at its default.
DefaultListQuery ==
    [offset |-> 0, limit |-> 50, window_days |-> 7,
     full_threshold |-> DefaultFullThreshold, medium_threshold |-> DefaultMediumThreshold,
     sort |-> "total_desc", is_online |-> {}, city |-> {}, name |-> {}]

ListQueries ==
    {[DefaultListQuery EXCEPT !.sort = s] :
        s \in {"total_desc", "total_asc", "capacity_remaining_desc",
               "capacity_remaining_asc", "status_desc", "status_asc"}}
    \cup {[DefaultListQuery EXCEPT !.is_online = {b}] : b \in BOOLEAN}
    \cup {[DefaultListQuery EXCEPT !.city = {"SEO"}],
          [DefaultListQuery EXCEPT !.name = {"can"}],
          [DefaultListQuery EXCEPT !.offset = 1, !.limit = 1],
          [DefaultListQuery EXCEPT !.sort = "capacity_remaining_desc", !.offset = 1,
                                   !.limit = 1],
          [DefaultListQuery EXCEPT !.sort = "capacity_remaining_asc", !.limit = 1],
          [DefaultListQuery EXCEPT !.window_days = 1, !.full_threshold = 2,
                                   !.medium_threshold = 1, !.sort = "status_desc"],
          [DefaultListQuery EXCEPT !.full_threshold = 1, !.medium_threshold = 2,
                                   !.sort = "status_asc"]}

\* The list that list_trashcans returns when the store hands it rows in order.
list_trashcans_items(q, order) ==
    LET total_map == CountMap(0)
        window_map == CountMap(now - q.window_days * TicksPerDay)
        kept == SelectSeq(order, LAMBDA row :
                    /\ \A b \in q.is_online : row.is_online = b
                    /\ Matches(q.city, row.trashcan_city)
                    /\ Matches(q.name, row.trashcan_name))
        item(row) ==
            LET total_objects == GetOr(total_map, row.trashcan_id, 0)
                current_objects == GetOr(window_map, row.trashcan_id, 0)
            IN  [trashcan_id |-> row.trashcan_id,
                 trashcan_name |-> row.trashcan_name,
                 total_objects |-> total_objects,
                 current_objects |-> current_objects,
                 capacity_remaining |->
                     {cap - current_objects : cap \in row.trashcan_capacity},
                 trashcan_city |-> row.trashcan_city,
                 is_online |-> row.is_online,
                 status |-> list_trashcans_compute_status({current_objects},
                                q.full_threshold, q.medium_threshold)]
        items == [i \in DOMAIN kept |-> item(kept[i])]
        key(it) ==
            CASE q.sort = "total_asc" -> <<it.total_objects>>
              [] q.sort = "capacity_remaining_desc" ->
                    <<AsInt(it.capacity_remaining = {}), 0 - OrZero(it.capacity_remaining)>>
              [] q.sort = "capacity_remaining_asc" ->
                    <<AsInt(it.capacity_remaining = {}), OrZero(it.capacity_remaining)>>
              [] q.sort = "status_desc" ->
                    <<status_order(it.status), 0 - it.current_objects>>
              [] q.sort = "status_asc" -> <<status_order(it.status), it.current_objects>>
              [] OTHER -> <<0 - it.total_objects>>
    IN  Slice(Sorted(items, [i \in DOMAIN items |-> key(items[i])]), q.offset, q.limit)

\* A read-only handler: it answers and leaves every table as it is.
ReadCall ==
    /\ Accepting
    /\ budget.reads > 0
    /\ budget' = [budget EXCEPT !.reads = @ - 1]
    /\ UNCHANGED <<store, sess, sched, now>>

list_trashcans(q) ==
    /\ ReadCall
    /\ \E order \in Orderings(Live) :
          resp' = [op |-> "list_trashcans", query |-> q,
                   items |-> list_trashcans_items(q, order)]

LocationQueries ==
    {[offset |-> 0, limit |-> 200, city |-> {}, name |-> {}],
     [offset |-> 1, limit |-> 1, city |-> {}, name |-> {}],
     [offset |-> 0, limit |-> 200, city |-> {"SEO"}, name |-> {}],
     [offset |-> 0, limit |-> 200, city |-> {}, name |-> {"can"}]}

trashcan_locations_items(q, order) ==
    LET kept == SelectSeq(order, LAMBDA row :
                    /\ Matches(q.city, row.trashcan_city)
                    /\ Matches(q.name, row.trashcan_name))
        items == [i \in DOMAIN kept |->
                    [trashcan_id |-> kept[i].trashcan_id,
                     trashcan_name |-> kept[i].trashcan_name,
                     trashcan_city |-> kept[i].trashcan_city]]
    IN  Slice(items, q.offset, q.limit)

trashcan_locations(q) ==
    /\ ReadCall
    /\ \E order \in Orderings({c \in Live : c.located}) :
          resp' = [op |-> "trashcan_locations", query |-> q,
                   items |-> trashcan_locations_items(q, order)]

SummaryQueries ==
    {[window_days |-> 7, full_threshold |-> DefaultFullThreshold,
      medium_threshold |-> DefaultMediumThreshold],
     [window_days |-> 1, full_threshold |-> 2, medium_threshold |-> 1]}

trashcan_summary(trashcan_id, q) ==
    /\ ReadCall
    /\ LET found == {c \in Live : c.trashcan_id = trashcan_id}
       IN  IF found = {}
           THEN resp' = [op |-> "trashcan_summary", ok |-> FALSE, reason |-> "not_found"]
           ELSE LET trashcan == CHOOSE c \in found : TRUE
                    total_objects == Cardinality(DetailsOf(trashcan_id, 0))
                    current_objects ==
                        Cardinality(DetailsOf(trashcan_id, now - q.window_days * TicksPerDay))
                IN  resp' = [op |-> "trashcan_summary", ok |-> TRUE,
                             trashcan_id |-> trashcan.trashcan_id,
                             total_objects |-> total_objects,
                             current_objects |-> current_objects,
                             capacity_remaining |->
                                 {cap - current_objects : cap \in trashcan.trashcan_capacity},
                             status |-> trashcan_summary_compute_status({current_objects},
                                            q.full_threshold, q.medium_threshold),
                             by_type |-> ByType(DetailsOf(trashcan_id, 0))]

dashboard_summary ==
    /\ ReadCall
    /\ resp' = [op |-> "dashboard_summary",
                total_objects |-> Cardinality(DetectionDetail),
                total_events |-> Cardinality(Detection),
                by_type |-> ByType(DetectionDetail)]

dashboard_summary_by_trashcan_items(order) ==
    [i \in DOMAIN order |->
        [trashcan_id |-> order[i].trashcan_id,
         trashcan_name |-> order[i].trashcan_name,
         trashcan_city |-> order[i].trashcan_city,
         total_events |->
             Cardinality({d \in Detection : d.trashcan_id = order[i].trashcan_id}),
         total_objects |-> GetOr(CountMap(0), order[i].trashcan_id, 0),
         by_type |-> ByType(DetailsOf(order[i].trashcan_id, 0))]]

dashboard_summary_by_trashcan ==
    /\ ReadCall
    /\ \E order \in Orderings(Live) :
          resp' = [op |-> "dashboard_summary_by_trashcan",
                   items |-> dashboard_summary_by_trashcan_items(order)]

\* The model's calendar: months of DaysPerMonth days, years of MonthsPerYear
\* months, day 0 the first day of a year.
DaysPerMonth == 2
MonthsPerYear == 2

\* period, and the optional pair (start_date, end_date)
StatsQueries ==
    {[period |-> p, range |-> {}] : p \in {"week", "month", "year"}}
    \cup {[period |-> "week", range |-> {<<d, d>>}] : d \in 0..STATS_LAG_DAYS}

\* Detection rows with detected_at between the first instant of start and
\* the last of end.
DetectionsBetween(start, end) ==
    {d \in Detection : start <= DateOf(d.detected_at) /\ DateOf(d.detected_at) <= end}

dashboard_stats(q) ==
    /\ ReadCall
    /\ LET today == DateOf(now)
           start == IF q.range # {} THEN (CHOOSE r \in q.range : TRUE)[1]
                    ELSE CASE q.period = "month" -> today - (today % DaysPerMonth)
                           [] q.period = "year" ->
                                 today - (today % (DaysPerMonth * MonthsPerYear))
                           [] OTHER -> today - 6
           end == IF q.range # {} THEN (CHOOSE r \in q.range : TRUE)[2] ELSE today
           events == DetectionsBetween(start, end)
           details == {dd \in DetectionDetail :
                          \E d \in events : d.detection_id = dd.detection_id}
           city_of(dd) ==
               {c.trashcan_city : c \in {c \in TrashCan :
                   \E d \in events : /\ d.detection_id = dd.detection_id
                                     /\ d.trashcan_id = c.trashcan_id}}
       IN  resp' = [op |-> "dashboard_stats",
                    period |-> IF q.range # {} THEN "custom" ELSE q.period,
                    start_date |-> start,
                    end_date |-> end,
                    total_events |-> Cardinality(events),
                    total_objects |-> Cardinality(details),
                    by_type |-> ByType(details),
                    by_city |-> [city \in UNION {city_of(dd) : dd \in details} |->
                                    Cardinality({dd \in details : city \in city_of(dd)})]]

CollectionQueries ==
    {[status |-> {}, sort |-> s, window_days |-> 7,
      full_threshold |-> DefaultFullThreshold,
      medium_threshold |-> DefaultMediumThreshold] : s \in {"status", "count"}}
    \cup {[status |-> {st}, sort |-> "status", window_days |-> 1,
           full_threshold |-> 2, medium_threshold |-> 1] :
              st \in {"full", "medium", "low", "unknown"}}

collection_needed_items(q, order) ==
    LET volume_map == CountMap(now - q.window_days * TicksPerDay)
        item(row) ==
            LET current_volume == Get(volume_map, row.trashcan_id)
            IN  [trashcan_id |-> row.trashcan_id,
                 trashcan_name |-> row.trashcan_name,
                 trashcan_city |-> row.trashcan_city,
                 detection_count |-> current_volume,
                 status |-> collection_needed_compute_status(current_volume,
                                q.full_threshold, q.medium_threshold)]
        all == [i \in DOMAIN order |-> item(order[i])]
        result == SelectSeq(all, LAMBDA it : \A st \in q.status : it.status = st)
        key(it) ==
            IF q.sort = "count"
            THEN <<AsInt(it.detection_count = {}), 0 - OrZero(it.detection_count)>>
            ELSE <<status_order(it.status), 0 - OrZero(it.detection_count)>>
    IN  Sorted(result, [i \in DOMAIN result |-> key(result[i])])

collection_needed(q) ==
    /\ ReadCall
    /\ \E order \in Orderings(Live) :
          resp' = [op |-> "collection_needed", query |-> q,
                   items |-> collection_needed_items(q, order)]

\* last_connected_at is written by the connection test alone, which is not
\* among the handlers here: it is NULL in every row, and the reason is
\* "never_connected" whatever stale_hours is.
offline_trashcans_items(order) ==
    [i \in DOMAIN order |->
        [trashcan_id |-> order[i].trashcan_id,
         trashcan_name |-> order[i].trashcan_name,
         trashcan_city |-> order[i].trashcan_city,
         error_reason |-> "never_connected"]]

offline_trashcans ==
    /\ ReadCall
    /\ \E order \in Orderings({c \in Live : ~c.is_online}) :
          resp' = [op |-> "offline_trashcans", items |-> offline_trashcans_items(order)]

\* ------------------------------------------------------------- classifier
\* Counts and thresholds the classifier is applied to, beside the defaults
\* and their neighbours.
MaxCount == 4
MaxThreshold == 3

CountInputs ==
    {{}} \cup {{n} : n \in 0..MaxCount}
         \cup {{t + k} : t \in {DefaultFullThreshold, DefaultMediumThreshold}, k \in {0 - 1, 0, 1}}

ThresholdInputs == (1..MaxThreshold) \cup {DefaultFullThreshold, DefaultMediumThreshold}

Copies == {"list_trashcans", "trashcan_summary", "collection_needed"}

\* One of the three compute_status closures is called on the drawn inputs.
compute_status ==
    /\ resp.op = "compute_status"
    /\ resp.status = "pending"
    /\ resp' = [resp EXCEPT !.status =
            CASE resp.copy = "list_trashcans" ->
                    list_trashcans_compute_status(resp.current,
                        resp.full_threshold, resp.medium_threshold)
              [] resp.copy = "trashcan_summary" ->
                    trashcan_summary_compute_status(resp.current,
                        resp.full_threshold, resp.medium_threshold)
              [] resp.copy = "collection_needed" ->
                    collection_needed_compute_status(resp.current,
                        resp.full_threshold, resp.medium_threshold)]
    /\ UNCHANGED <<store, sess, sched, now, budget>>

\* --------------------------------------------------------- specification
Init ==
    /\ TrashCan = {}
    /\ WasteType = {}
    /\ Detection = {}
    /\ DetectionDetail = {}
    /\ DailyStats = {}
    /\ sess = [s \in Sessions |-> IdleSession]
    /\ resp = NoResponse
    /\ sched = NewTask
    /\ now = TicksPerDay * STATS_LAG_DAYS
    /\ budget = [ingests |-> MaxIngests, ops |-> MaxApiOps, reads |-> 0, stamped |-> 0, overlap |-> FALSE]

Next ==
    \/ \E s \in Sessions : IngestStart(s)
    \/ \E s \in Sessions : IngestDetail(s)
    \/ \E s \in Sessions : IngestCommit(s)
    \/ \E s \in Sessions : IngestFail(s)
    \/ \E payload \in TrashCanInputs : create_trashcan(payload)
    \/ \E id \in CanIds, payload \in TrashCanUpdates : update_trashcan(id, payload)
    \/ \E id \in CanIds : delete_trashcan(id)
    \/ \E id \in CanIds : restore_trashcan(id)
    \/ \E name \in ClassNames : create_waste_type(name)
    \/ \E id \in ClassIds : delete_waste_type(id)
    \/ \E types \in SeedInputs : seed_waste_types(types)

Spec == Init /\ [][Next]_vars

\* Overlapping requests: every session may be inside create_detection while
\* other requests are served.
ConcInit ==
    /\ TrashCan = {}
    /\ WasteType = {}
    /\ Detection = {}
    /\ DetectionDetail = {}
    /\ DailyStats = {}
    /\ sess = [s \in Sessions |-> IdleSession]
    /\ resp = NoResponse
    /\ sched = NewTask
    /\ now = TicksPerDay * STATS_LAG_DAYS
    /\ budget = [ingests |-> MaxConcIngests, ops |-> MaxConcApiOps, reads |-> 0, stamped |-> 0,
                 overlap |-> TRUE]

ConcSpec == ConcInit /\ [][Next]_vars

\* The scheduler beside the requests that change what it reads.
SchedInit ==
    /\ TrashCan = {}
    /\ WasteType = {}
    /\ Detection = {}
    /\ DetectionDetail = {}
    /\ DailyStats = {}
    /\ sess = [s \in Sessions |-> IdleSession]
    /\ resp = NoResponse
    /\ sched = NewTask
    /\ now = TicksPerDay * STATS_LAG_DAYS
    /\ budget = [ingests |-> MaxSchedIngests, ops |-> MaxSchedApiOps, reads |-> 0,
                 stamped |-> MaxSchedIngests, overlap |-> FALSE]

SchedNext ==
    \/ RefreshQuery
    \/ RefreshUpsert
    \/ RefreshCommit
    \/ RefreshFail
    \/ Cancel
    \/ Tick
    \/ \E s \in Sessions : IngestStart(s)
    \/ \E s \in Sessions : IngestDetail(s)
    \/ \E s \in Sessions : IngestCommit(s)
    \/ \E s \in Sessions : IngestFail(s)
    \/ \E id \in CanIds, payload \in TrashCanUpdates : update_trashcan(id, payload)

SchedSpec == SchedInit /\ [][SchedNext]_vars

\* Weak fairness of the task's own steps: a sleep that is not cancelled ends,
\* and refresh_daily_stats, once called, runs on to its commit or its raise.
SchedLiveSpec ==
    /\ SchedInit
    /\ [][SchedNext]_vars
    /\ WF_vars(RefreshQuery)
    /\ WF_vars(RefreshUpsert \/ RefreshCommit \/ RefreshFail)

\* ------------------------------------------------------------ properties

\* C1. Refresh idempotence: a refresh cycle that commits for the target date
\* of the committed cycle before it, its query returning the same groups
\* (as it does when no raw Detection, Detection_detail or TrashCan row
\* changed in between), leaves the DailyStats rows exactly as they were:
\* none added, duplicated or changed.
C1_RefreshIdempotent ==
    [][(/\ RefreshCommit
        /\ sched.prev_date = sched.target_date
        /\ sched.prev_rows = sched.queried) => DailyStats' = DailyStats]_vars

\* A second committed cycle over the same date and the same, non-empty, groups.
C1_Witness ==
    /\ sched.pc = "sleeping"
    /\ sched.last = "committed"
    /\ sched.repeat
    /\ sched.prev_rows # {}
    /\ DailyStats # {}

\* C9. Refresher liveness: a cycle that is running, whether it then commits
\* or raises, is followed by the sleep; a sleep that is not cancelled is
\* followed by another cycle; a raise puts the task to sleep and touches no
\* request session and no response.
C9_RefresherLiveness ==
    /\ (sched.pc = "upserting") ~> (sched.pc = "sleeping")
    /\ (sched.pc = "sleeping") ~> (sched.pc \in {"upserting", "cancelled"})
    /\ [][RefreshFail => (sched'.pc = "sleeping" /\ UNCHANGED <<sess, resp>>)]_vars

\* A cycle running after a cycle that failed.
C9_Witness ==
    /\ sched.pc = "upserting"
    /\ sched.last = "failed"

\* C10. A failed cycle leaves the summary untouched: no step of the task but
\* the commit that ends a cycle changes the committed DailyStats rows, so
\* when a cycle raises, before or after any number of upserts, DailyStats is
\* what it was when the cycle began.
C10_FailedCycleLeavesSummary ==
    [][RefreshCommit \/ DailyStats' = DailyStats]_vars

\* A cycle that raised after at least one upsert that had changed its rows.
C10_Witness ==
    /\ sched.pc = "sleeping"
    /\ sched.last = "failed"
    /\ sched.done > 0

\* Sequentially executed ingests and nothing else.
IngestInit ==
    /\ TrashCan = {}
    /\ WasteType = {}
    /\ Detection = {}
    /\ DetectionDetail = {}
    /\ DailyStats = {}
    /\ sess = [s \in Sessions |-> IdleSession]
    /\ resp = NoResponse
    /\ sched = NewTask
    /\ now = TicksPerDay * STATS_LAG_DAYS
    /\ budget = [ingests |-> MaxSeqIngests, ops |-> 0, reads |-> 0, stamped |-> 0, overlap |-> FALSE]

IngestNext ==
    \/ \E s \in Sessions : IngestStart(s)
    \/ \E s \in Sessions : IngestDetail(s)
    \/ \E s \in Sessions : IngestCommit(s)
    \/ \E s \in Sessions : IngestFail(s)

IngestSpec == IngestInit /\ [][IngestNext]_vars

\* Sequential requests with the read endpoints and the clock.
ViewInit ==
    /\ TrashCan = {}
    /\ WasteType = {}
    /\ Detection = {}
    /\ DetectionDetail = {}
    /\ DailyStats = {}
    /\ sess = [s \in Sessions |-> IdleSession]
    /\ resp = NoResponse
    /\ sched = NewTask
    /\ now = TicksPerDay * STATS_LAG_DAYS
    /\ budget = [ingests |-> MaxViewIngests, ops |-> MaxViewApiOps,
                 reads |-> MaxViewReads, stamped |-> 1, overlap |-> FALSE]

ViewNext ==
    \/ \E s \in Sessions : IngestStart(s)
    \/ \E s \in Sessions : IngestDetail(s)
    \/ \E s \in Sessions : IngestCommit(s)
    \/ \E s \in Sessions : IngestFail(s)
    \/ \E payload \in TrashCanInputs : create_trashcan(payload)
    \/ \E id \in CanIds : delete_trashcan(id)
    \/ \E id \in CanIds : restore_trashcan(id)
    \/ \E q \in ListQueries : list_trashcans(q)
    \/ \E q \in LocationQueries : trashcan_locations(q)
    \/ \E id \in CanIds, q \in SummaryQueries : trashcan_summary(id, q)
    \/ dashboard_summary
    \/ dashboard_summary_by_trashcan
    \/ \E q \in StatsQueries : dashboard_stats(q)
    \/ \E q \in CollectionQueries : collection_needed(q)
    \/ offline_trashcans
    \/ Tick

ViewSpec == ViewInit /\ [][ViewNext]_vars

\* The classifier alone, on inputs drawn at the start.
ClassifyInit ==
    /\ TrashCan = {}
    /\ WasteType = {}
    /\ Detection = {}
    /\ DetectionDetail = {}
    /\ DailyStats = {}
    /\ sess = [s \in Sessions |-> IdleSession]
    /\ resp \in [op : {"compute_status"}, copy : Copies, current : CountInputs,
                 full_threshold : ThresholdInputs, medium_threshold : ThresholdInputs,
                 status : {"pending"}]
    /\ sched = NewTask
    /\ now = TicksPerDay * STATS_LAG_DAYS
    /\ budget = [ingests |-> 0, ops |-> 0, reads |-> 0, stamped |-> 0, overlap |-> FALSE]

ClassifyNext == compute_status

ClassifySpec == ClassifyInit /\ [][ClassifyNext]_vars

\* The trash can is an entry of the catalog list, of the collection-priority
\* list and of the per-can dashboard summary, all with default parameters.
Listed(id) ==
    \A order \in Orderings(Live) :
        /\ \E i \in DOMAIN list_trashcans_items(DefaultListQuery, order) :
              list_trashcans_items(DefaultListQuery, order)[i].trashcan_id = id
        /\ \E i \in DOMAIN order :
              /\ dashboard_summary_by_trashcan_items(order)[i].trashcan_id = id
              /\ \E q \in CollectionQueries :
                    /\ q.status = {}
                    /\ \E k \in DOMAIN collection_needed_items(q, order) :
                          collection_needed_items(q, order)[k].trashcan_id = id

\* Every TrashCan row there is: committed, or written by an open ingest.
AllCans == TrashCan \cup UNION {sess[s].TrashCan : s \in Sessions}

\* C2. Ingest atomicity: no step of create_detection but its final commit
\* changes a committed row, so an ingest that fails at any step (trash-can
\* resolution, Detection insert, waste-type resolution, detail insert) leaves
\* no TrashCan, WasteType, Detection or Detection_detail row and no cleared
\* soft-delete flag behind.
C2_IngestAtomic ==
    [][\A s \in Sessions :
          (IngestStart(s) \/ IngestDetail(s) \/ IngestFail(s)) => UNCHANGED store]_vars

\* An ingest failed on the unique type_name after its session had written rows.
C2_Witness ==
    /\ resp.op = "create_detection"
    /\ resp.status = "failed"
    /\ resp.exception = "IntegrityError"
    /\ resp.written > 1

\* C3. Revive-on-ingest: an ingest that names a trash can that is
\* soft-deleted when the ingest resolves it takes the flag off in its
\* transaction, and when that ingest commits the can is not deleted and is
\* again an entry of the listings, which it was not before; restore_trashcan
\* has no part in it.
C3_ReviveOnIngest ==
    [][\A s \in Sessions :
          /\ IngestStart(s) =>
                \A id \in sess'[s].named :
                    (\E c \in TrashCan : c.trashcan_id = id /\ c.is_deleted)
                        => id \in sess'[s].revived
          /\ IngestCommit(s) =>
                \A id \in sess[s].revived :
                    /\ \E c \in TrashCan' : c.trashcan_id = id /\ ~c.is_deleted
                    /\ ~Listed(id)
                    /\ Listed(id)']_vars

\* An ingest that revived a trash can has committed.
C3_Witness ==
    /\ resp.op = "create_detection"
    /\ resp.status = "committed"
    /\ resp.revived # {}
    /\ \A id \in resp.revived : \E c \in TrashCan : c.trashcan_id = id /\ ~c.is_deleted

\* C4. Idempotent resolution: there is never more than one TrashCan row of
\* an id; an ingest that names an id writes a TrashCan row only when none of
\* that id is committed, and attaches its Detection to that id; when it has
\* committed, its Detection belongs to the one row of the id it named.
C4_IdempotentResolution ==
    /\ \A id \in CanIds : Cardinality({c \in AllCans : c.trashcan_id = id}) <= 1
    /\ \A s \in Sessions :
          (sess[s].pc # "idle" /\ sess[s].named # {}) =>
              /\ \A d \in sess[s].Detection : d.trashcan_id \in sess[s].named
              /\ \A c \in sess[s].TrashCan : c.trashcan_id \in sess[s].named
              /\ Cardinality({c \in VisibleCans(s) : c.trashcan_id \in sess[s].named}) = 1
    /\ (resp.op = "create_detection" /\ resp.status = "committed" /\ resp.named # {}) =>
          /\ \E d \in Detection :
                d.detection_id = resp.detection_id /\ d.trashcan_id \in resp.named
          /\ Cardinality({c \in TrashCan : c.trashcan_id \in resp.named}) = 1

\* Two committed ingests named the same id: one row, both Detections on it.
C4_Witness ==
    /\ resp.op = "create_detection"
    /\ resp.status = "committed"
    /\ resp.named # {}
    /\ Cardinality({d \in Detection : d.trashcan_id \in resp.named}) = 2
    /\ \A c \in TrashCan : c.trashcan_id \in resp.named => c.trashcan_name # UNKNOWN

\* The rows named "UNKNOWN".
Sentinels(rows) == {c \in rows : c.trashcan_name = UNKNOWN}

\* C5. Unknown sentinel reuse: in a run of sequentially executed ingests
\* there is never more than one TrashCan row named "UNKNOWN"; an ingest
\* without a trash-can id attaches its Detection to that row, whose city is
\* "UNKNOWN"; and the row, once committed, stays as it is.
C5_SentinelReuse ==
    /\ [](/\ Cardinality(Sentinels(AllCans)) <= 1
          /\ \A s \in Sessions :
                (sess[s].pc # "idle" /\ sess[s].named = {}) =>
                    /\ \E c \in Sentinels(VisibleCans(s)) :
                          /\ c.trashcan_id = sess[s].trashcan_id
                          /\ c.trashcan_city = UNKNOWN
                    /\ \A d \in sess[s].Detection : d.trashcan_id = sess[s].trashcan_id
          /\ (resp.op = "create_detection" /\ resp.status = "committed" /\ resp.named = {}) =>
                /\ \E c \in Sentinels(TrashCan) : c.trashcan_id = resp.trashcan_id
                /\ \E d \in Detection :
                      d.detection_id = resp.detection_id /\ d.trashcan_id = resp.trashcan_id)
    /\ [][\A c \in Sentinels(TrashCan) : c \in TrashCan']_vars

\* Two ingests without a trash-can id have committed: the first created the
\* sentinel as the only row, the second attached its Detection to it.
C5_Witness ==
    /\ resp.op = "create_detection"
    /\ resp.status = "committed"
    /\ resp.named = {}
    /\ resp.detection_id = 2
    /\ Cardinality(TrashCan) = 1
    /\ \A c \in TrashCan : c.trashcan_name = UNKNOWN /\ c.trashcan_id = resp.trashcan_id
    /\ \A d \in Detection : d.trashcan_id = resp.trashcan_id
    /\ Cardinality(Detection) = 2

\* C6. Occupancy classifier: each of the three compute_status copies returns
\* "unknown" exactly when the count is absent, otherwise "full" when the
\* count is at least full_threshold, otherwise "medium" when it is at least
\* medium_threshold, otherwise "low", for thresholds in either order; with
\* the defaults (50, 20): 20 is medium, 50 is full, 0 is low.
C6_OccupancyClassifier ==
    (resp.op = "compute_status" /\ resp.status # "pending") =>
        /\ resp.status = "unknown" <=> resp.current = {}
        /\ \A count \in resp.current :
              /\ resp.status = "full" <=> count >= resp.full_threshold
              /\ resp.status = "medium" <=>
                    (count < resp.full_threshold /\ count >= resp.medium_threshold)
              /\ resp.status = "low" <=>
                    (count < resp.full_threshold /\ count < resp.medium_threshold)
        /\ (resp.full_threshold = 50 /\ resp.medium_threshold = 20) =>
              /\ resp.current = {20} => resp.status = "medium"
              /\ resp.current = {50} => resp.status = "full"
              /\ resp.current = {0} => resp.status = "low"

\* A count equal to the medium threshold of an inverted pair was classified.
C6_Witness ==
    /\ resp.op = "compute_status"
    /\ resp.status = "full"
    /\ resp.full_threshold < resp.medium_threshold
    /\ resp.current = {resp.full_threshold}
    /\ resp.copy = "list_trashcans"

\* C7. Referential delete guard: delete_waste_type on a WasteType that a
\* Detection_detail row references answers {deleted: false, reason: "in_use"}
\* and changes no row; a WasteType row leaves the table only when no
\* Detection_detail row references it.
C7_ReferentialDeleteGuard ==
    [][/\ \A id \in ClassIds :
            (/\ delete_waste_type(id)
             /\ \E w \in WasteType : w.waste_type_id = id
             /\ detection_details(id) # {}) =>
                /\ resp' = [op |-> "delete_waste_type", deleted |-> FALSE, reason |-> "in_use"]
                /\ UNCHANGED store
       /\ \A w \in WasteType :
            w \notin WasteType' => detection_details(w.waste_type_id) = {}]_vars

\* The guard refused to delete a waste type in use; the rows are there.
C7_Witness ==
    /\ resp = [op |-> "delete_waste_type", deleted |-> FALSE, reason |-> "in_use"]
    /\ \E w \in WasteType : detection_details(w.waste_type_id) # {}

\* Detection rows of trash cans that are not soft-deleted, and their details.
LiveDetections == {d \in Detection : \E c \in Live : c.trashcan_id = d.trashcan_id}
LiveDetails ==
    {dd \in DetectionDetail : \E d \in LiveDetections : d.detection_id = dd.detection_id}

\* The entries of the listings are trash cans that are not soft-deleted.
C8_ListingsExcludeDeleted ==
    resp.op \in {"list_trashcans", "trashcan_locations", "collection_needed",
                 "offline_trashcans", "dashboard_summary_by_trashcan"} =>
        \A i \in DOMAIN resp.items :
            \E c \in Live : c.trashcan_id = resp.items[i].trashcan_id

\* C8. Soft-delete exclusion: no response of a listing or aggregation
\* endpoint has an entry for a soft-deleted trash can, or a count that
\* includes detections of one.
C8_SoftDeleteExclusion ==
    /\ C8_ListingsExcludeDeleted
    /\ resp.op = "dashboard_summary" =>
          /\ resp.total_objects = Cardinality(LiveDetails)
          /\ resp.total_events = Cardinality(LiveDetections)
          /\ resp.by_type = ByType(LiveDetails)
    /\ resp.op = "dashboard_stats" =>
          LET events == DetectionsBetween(resp.start_date, resp.end_date) \cap LiveDetections
              details == {dd \in LiveDetails :
                             \E d \in events : d.detection_id = dd.detection_id}
          IN  /\ resp.total_events = Cardinality(events)
              /\ resp.total_objects = Cardinality(details)
              /\ resp.by_type = ByType(details)
              /\ \A city \in DOMAIN resp.by_city :
                    resp.by_city[city] =
                        Cardinality({dd \in details : \E d \in events, c \in Live :
                            /\ d.detection_id = dd.detection_id
                            /\ c.trashcan_id = d.trashcan_id
                            /\ c.trashcan_city = city})

\* dashboard_summary has counted the objects of a soft-deleted trash can.
C8_Witness ==
    /\ resp.op = "dashboard_summary"
    /\ resp.total_objects > 0
    /\ Live = {}

\* C11. Already-in-state idempotence: delete_trashcan on a trash can that is
\* already soft-deleted answers {deleted: true, already_deleted: true},
\* restore_trashcan on one that is not deleted answers {restored: true,
\* already_active: true}, and neither changes a field of any row: the second
\* of two deletes (or restores) in a row leaves the state of the first.
C11_AlreadyInState ==
    [][\A id \in CanIds :
          /\ (/\ delete_trashcan(id)
              /\ \E c \in TrashCan : c.trashcan_id = id /\ c.is_deleted) =>
                 /\ resp' = [op |-> "delete_trashcan", deleted |-> TRUE,
                             reason |-> "already_deleted"]
                 /\ UNCHANGED store
          /\ (/\ restore_trashcan(id)
              /\ \E c \in TrashCan : c.trashcan_id = id /\ ~c.is_deleted) =>
                 /\ resp' = [op |-> "restore_trashcan", restored |-> TRUE,
                             reason |-> "already_active"]
                 /\ UNCHANGED store]_vars

\* A trash can was deleted twice: the second delete found it deleted.
C11_Witness ==
    /\ resp = [op |-> "delete_trashcan", deleted |-> TRUE, reason |-> "already_deleted"]
    /\ \E c \in TrashCan : c.is_deleted
    /\ budget.ops = 0

\* The items without a capacity_remaining come after all that have one, and
\* those that have one are in descending (ascending) order of it.
NullsLast(items, sort) ==
    \A i, j \in DOMAIN items :
        i < j =>
            /\ items[i].capacity_remaining = {} => items[j].capacity_remaining = {}
            /\ \A a \in items[i].capacity_remaining, b \in items[j].capacity_remaining :
                  IF sort = "capacity_remaining_desc" THEN a >= b ELSE a <= b

\* C12. Nulls-last capacity sort: list_trashcans with sort
\* capacity_remaining_desc or capacity_remaining_asc puts every item without
\* a capacity_remaining after every item with a numeric one, whatever the
\* numbers are, the numeric ones in descending (ascending) order; offset and
\* limit take their slice of that sorted sequence of all the rows that pass
\* the filters.
C12_NullsLastCapacitySort ==
    [][\A q \in ListQueries :
          (/\ q.sort \in {"capacity_remaining_desc", "capacity_remaining_asc"}
           /\ resp'.op = "list_trashcans"
           /\ list_trashcans(q)) =>
             \A order \in Orderings(Live) :
                 resp'.items = list_trashcans_items(q, order) =>
                     LET all == list_trashcans_items(
                                    [q EXCEPT !.offset = 0, !.limit = Cardinality(Live)], order)
                     IN  /\ Len(all) = Cardinality(Live)
                         /\ NullsLast(all, q.sort)
                         /\ NullsLast(resp'.items, q.sort)
                         /\ resp'.items = Slice(all, q.offset, q.limit)]_vars

\* The list came back sorted by capacity_remaining_desc with a trash can
\* that is over its capacity ahead of one that has no capacity.
C12_Witness ==
    /\ resp.op = "list_trashcans"
    /\ resp.query.sort = "capacity_remaining_desc"
    /\ resp.query.offset = 0
    /\ Len(resp.items) = 2
    /\ \E n \in resp.items[1].capacity_remaining : n <= 0
    /\ resp.items[2].capacity_remaining = {}

\* The (city, waste_type_id, count) of the DailyStats rows of one date.
StatsOf(rows, stats_date) ==
    {<<r.trashcan_city, r.waste_type_id, r.detection_count>> :
        r \in {r \in rows : r.stats_date = stats_date}}

\* When a cycle commits with the raw rows as its query read them, every
\* group of the query has a DailyStats row with its count.
C13_GroupsUpToDate ==
    [][(RefreshCommit /\ sched.queried = GroupedCounts(sched.target_date)) =>
          GroupedCounts(sched.target_date) \subseteq StatsOf(DailyStats', sched.target_date)]_vars

\* C13. DailyStats reflects the raw data after a refresh: when a cycle for
\* target date d commits (the raw rows being as its query read them), the
\* DailyStats rows of date d are exactly the (city, waste_type_id) groups of
\* the events detected on d with their counts, with no row left for a group
\* that has no events any more, also after update_trashcan changed a city
\* between two cycles for d.
C13_StatsReflectRawData ==
    [][(RefreshCommit /\ sched.queried = GroupedCounts(sched.target_date)) =>
          StatsOf(DailyStats', sched.target_date) = GroupedCounts(sched.target_date)]_vars

\* A committed cycle has left a DailyStats row for a city that no trash can
\* has any more.
C13_Witness ==
    /\ sched.pc = "sleeping"
    /\ sched.last = "committed"
    /\ \E r \in DailyStats :
          /\ r.stats_date = sched.prev_date
          /\ \A c \in TrashCan : c.trashcan_city # r.trashcan_city
    /\ sched.prev_rows = GroupedCounts(sched.prev_date)

\* C14. DailyStats key uniqueness: whatever cycles have run (committed or
\* failed, for one date or several) beside ingests and trash-can updates,
\* there is at most one DailyStats row of each (stats_date, trashcan_city,
\* waste_type_id), a NULL city included, among the committed rows and among
\* the rows an open cycle holds.
C14_StatsKeyUnique ==
    \A rows \in {DailyStats, sched.stats} :
        \A r1, r2 \in rows :
            (/\ r1.stats_date = r2.stats_date
             /\ r1.trashcan_city = r2.trashcan_city
             /\ r1.waste_type_id = r2.waste_type_id) => r1 = r2

\* A key without a city was refreshed by two committed cycles in a row.
C14_Witness ==
    /\ sched.pc = "sleeping"
    /\ sched.last = "committed"
    /\ sched.repeat
    /\ \E r \in DailyStats : r.trashcan_city = NULL /\ r.stats_date = sched.prev_date

\* Sequential requests of every handler that writes, beside the refresher.
IntegrityInit ==
    /\ TrashCan = {}
    /\ WasteType = {}
    /\ Detection = {}
    /\ DetectionDetail = {}
    /\ DailyStats = {}
    /\ sess = [s \in Sessions |-> IdleSession]
    /\ resp = NoResponse
    /\ sched = NewTask
    /\ now = TicksPerDay * STATS_LAG_DAYS
    /\ budget = [ingests |-> MaxIntegrityIngests, ops |-> MaxIntegrityApiOps, reads |-> 0,
                 stamped |-> MaxIntegrityIngests, overlap |-> FALSE]

IntegrityNext ==
    \/ Next
    \/ RefreshQuery
    \/ RefreshUpsert
    \/ RefreshCommit
    \/ RefreshFail

IntegritySpec == IntegrityInit /\ [][IntegrityNext]_vars

\* C15. Referential integrity: in every state every Detection_detail row
\* names a Detection that exists (and was written before it, also inside an
\* open ingest), every Detection names a TrashCan row that exists, and
\* every Detection_detail and DailyStats row names a WasteType that exists.
C15_ReferentialIntegrity ==
    /\ \A dd \in DetectionDetail :
          /\ \E d \in Detection : d.detection_id = dd.detection_id
          /\ \E w \in WasteType : w.waste_type_id = dd.waste_type_id
    /\ \A d \in Detection : \E c \in TrashCan : c.trashcan_id = d.trashcan_id
    /\ \A r \in DailyStats : \E w \in WasteType : w.waste_type_id = r.waste_type_id
    /\ \A s \in Sessions :
          /\ \A dd \in sess[s].DetectionDetail :
                /\ \E d \in Detection \cup sess[s].Detection :
                      d.detection_id = dd.detection_id
                /\ \E w \in VisibleWasteTypes(s) : w.waste_type_id = dd.waste_type_id
          /\ \A d \in sess[s].Detection :
                \E c \in VisibleCans(s) : c.trashcan_id = d.trashcan_id

\* delete_waste_type was refused for a type that Detection_detail and
\* DailyStats rows name, on a trash can that is soft-deleted.
C15_Witness ==
    /\ resp = [op |-> "delete_waste_type", deleted |-> FALSE, reason |-> "in_use"]
    /\ DailyStats # {}
    /\ DetectionDetail # {}
    /\ \E c \in TrashCan : c.is_deleted /\ \E d \in Detection : d.trashcan_id = c.trashcan_id

\* The trash can has no detected object from the cutoff of the window on.
NoneInWindow(trashcan_id, window_days) ==
    DetailsOf(trashcan_id, now - window_days * TicksPerDay) = {}

\* Both catalog views report "unknown" for a trash can that has no detected
\* object inside the window.
C16_BothViewsReportUnknown ==
    [][/\ \A q \in CollectionQueries :
             (resp'.op = "collection_needed" /\ collection_needed(q)) =>
                \A i \in DOMAIN resp'.items :
                    NoneInWindow(resp'.items[i].trashcan_id, q.window_days) =>
                        resp'.items[i].status = "unknown"
       /\ \A q \in ListQueries :
             (resp'.op = "list_trashcans" /\ list_trashcans(q)) =>
                \A i \in DOMAIN resp'.items :
                    NoneInWindow(resp'.items[i].trashcan_id, q.window_days) =>
                        resp'.items[i].status = "unknown"]_vars

\* C16. Status of a trash can with no detections in the window:
\* collection_needed reports it with an absent count and status "unknown",
\* reports "low" only for a counted value below medium_threshold, and puts
\* it after every item that has a count; list_trashcans counts it as 0 and
\* reports it as "low", never "unknown", and its status sorts order the
\* items of one status by that count.
C16_NoDetectionStatus ==
    [][/\ \A q \in CollectionQueries :
             (resp'.op = "collection_needed" /\ collection_needed(q)) =>
                LET items == resp'.items
                IN  /\ \A i \in DOMAIN items :
                          /\ NoneInWindow(items[i].trashcan_id, q.window_days)
                                <=> items[i].detection_count = {}
                          /\ items[i].detection_count = {} <=> items[i].status = "unknown"
                          /\ items[i].status = "low" =>
                                \E n \in items[i].detection_count :
                                    n >= 1 /\ n < q.medium_threshold
                    /\ \A i, j \in DOMAIN items :
                          (i < j /\ items[i].detection_count = {}) =>
                              items[j].detection_count = {}
       /\ \A q \in ListQueries :
             (resp'.op = "list_trashcans" /\ list_trashcans(q)) =>
                LET items == resp'.items
                IN  /\ \A i \in DOMAIN items :
                          /\ items[i].status # "unknown"
                          /\ NoneInWindow(items[i].trashcan_id, q.window_days) =>
                                (items[i].current_objects = 0 /\ items[i].status = "low")
                    /\ \A i, j \in DOMAIN items :
                          (i < j /\ items[i].status = items[j].status) =>
                              /\ q.sort = "status_desc" =>
                                    items[i].current_objects >= items[j].current_objects
                              /\ q.sort = "status_asc" =>
                                    items[i].current_objects <= items[j].current_objects]_vars

\* collection_needed listed a trash can with counted objects ahead of one
\* that has none in the window, which it reports as "unknown".
C16_Witness ==
    /\ resp.op = "collection_needed"
    /\ Len(resp.items) = 2
    /\ resp.items[1].status = "low"
    /\ resp.items[2].status = "unknown"
    /\ resp.items[2].detection_count = {}

\* C17. Clean cancellation: the scheduler task stops only where no cycle is
\* open (in its sleep, or before it ever ran), never between a cycle's query
\* and its commit or failure; the committed DailyStats table changes only by
\* the commit that follows the last upsert of a cycle, so it never holds a
\* part of a cycle's upserts; and a cycle starts only when none is open.
C17_CleanCancellation ==
    /\ [](sched.pc = "cancelled" => (sched.rows = {} /\ sched.stats = {}))
    /\ [][/\ (sched'.pc = "cancelled" /\ sched.pc # "cancelled") =>
                /\ sched.pc \in {"created", "sleeping"}
                /\ UNCHANGED store
          /\ DailyStats' # DailyStats =>
                /\ sched.pc = "upserting"
                /\ sched.rows = {}
                /\ sched.done = Cardinality(sched.queried)
                /\ sched'.pc = "sleeping"
          /\ (sched'.pc = "upserting" /\ sched'.done = 0 /\ sched.pc = "upserting") =>
                sched' = sched]_vars

\* The task was cancelled in the sleep after a cycle that failed with some
\* of its upserts done: none of them is in the table.
C17_Witness ==
    /\ sched.pc = "cancelled"
    /\ sched.last = "failed"
    /\ sched.done > 0
    /\ DailyStats = {}

\* C18. Sentinel is singular under all operations: whatever requests
\* interleave (id-less ingests that overlap, create_trashcan and
\* update_trashcan with the name "UNKNOWN", a renamed sentinel), at most one
\* TrashCan row named "UNKNOWN" exists, no id-less ingest fails on finding
\* several, and a committed id-less ingest has its Detection on that row.
C18_SentinelSingular ==
    /\ Cardinality(Sentinels(TrashCan)) <= 1
    /\ ~(/\ resp.op = "create_detection"
         /\ resp.status = "failed"
         /\ resp.exception = "MultipleResultsFound")
    /\ (resp.op = "create_detection" /\ resp.status = "committed" /\ resp.named = {}) =>
          \E c \in Sentinels(TrashCan) : c.trashcan_id = resp.trashcan_id

\* Two rows named "UNKNOWN" are committed and an id-less ingest has failed
\* on them.
C18_Witness ==
    /\ Cardinality(Sentinels(TrashCan)) = 2
    /\ resp.op = "create_detection"
    /\ resp.status = "failed"
    /\ resp.exception = "MultipleResultsFound"

====
